---- MODULE Spec2Model ----
(***************************************************************************)
(* Model of the itinerary combination engine of flight-scanner             *)
(* (src/aggregate_flights.py): the date helpers parse_datetime,            *)
(* calculate_arrival and calculate_stay_duration as operators, and         *)
(* find_combinations as a state machine that walks its two filters and     *)
(* its nested loop one iteration per step.                                 *)
(*                                                                         *)
(* Representation of JSON values.                                          *)
(*  - A city code is a string; NoCity stands for Python None (key absent   *)
(*    or null, which dict.get does not tell apart).                        *)
(*  - A timestamp string is a record [lay, day, min]: its textual layout,  *)
(*    the day of February 2026 and the minute of the day it spells.        *)
(*      "iso_offset"  2026-02-15T10:00:00+03:00                            *)
(*      "iso"         2026-02-15T10:00:00                                  *)
(*      "iso_z"       2026-02-15T10:00:00Z                                 *)
(*      "space"       2026-02-15 10:00:00                                  *)
(*      "date"        2026-02-15                                           *)
(*      "iso_minutes" 2026-02-15T10:00   (no layout of parse_datetime)     *)
(*      "garbage"     n/a                                                  *)
(*      "absent"      key absent or null                                   *)
(*  - A JSON number is a natural; Absent stands for a missing key and Null *)
(*    for an explicit null (dict.get(k, 0) tells the two apart).           *)
(***************************************************************************)
EXTENDS Integers, Sequences, FiniteSets, TLC

NoCity == "null"
Absent == -1
Null == -2
MinutesPerDay == 1440

NoTime == [lay |-> "absent", day |-> 0, min |-> 0]
Stamp(l, d, m) == [lay |-> l, day |-> d, min |-> m]

(* Python truthiness of a timestamp field and of a numeric field. *)
HasTime(ts) == ts.lay # "absent"
Present(n) == n # Absent /\ n # Null
Truthy(n) == Present(n) /\ n # 0

(* a or b on city codes *)
OrCity(a, b) == IF a # NoCity THEN a ELSE b

(***************************************************************************)
(* parse_datetime: the four strptime layouts, after the offset is cut off. *)
(* The result is an instant in minutes; ok = FALSE models ValueError.  A   *)
(* text ending in Z has no '+' to cut at and matches the %z layout, which  *)
(* yields a zone-aware datetime (aware = TRUE); every other result is      *)
(* naive.                                                                  *)
(***************************************************************************)
parse_datetime(ts) ==
    [ok |-> ts.lay \in {"iso_offset", "iso", "iso_z", "space", "date"},
     aware |-> ts.lay = "iso_z",
     at |-> ts.day * MinutesPerDay + (IF ts.lay = "date" THEN 0 ELSE ts.min)]

(* datetime.isoformat() of a naive instant *)
IsoFormat(at) == Stamp("iso", at \div MinutesPerDay, at % MinutesPerDay)

(* calculate_arrival: departure + duration, or the departure string itself *)
calculate_arrival(departure_at, duration) ==
    LET p == parse_datetime(departure_at)
    IN  IF ~p.ok THEN departure_at
        ELSE IF p.aware THEN [IsoFormat(p.at + duration) EXCEPT !.lay = "iso_offset"]
        ELSE IsoFormat(p.at + duration)

(* The date-only fallback of calculate_stay_duration: the text before 'T'
   (the whole text when there is no 'T') must match %Y-%m-%d. *)
DatePrefix(ts) ==
    [ok |-> ts.lay \in {"iso_offset", "iso", "iso_z", "iso_minutes", "date"},
     at |-> ts.day * MinutesPerDay]

(* Mutant of Days: the difference rounded to the nearest day. *)
DaysRounded(delta) == (delta + 720) \div MinutesPerDay

(* timedelta.days: the floor of the difference in days *)
Days(delta) == delta \div MinutesPerDay

calculate_stay_duration(leg1_arrival, leg2_departure) ==
    LET a == parse_datetime(leg1_arrival)
        d == parse_datetime(leg2_departure)
        ad == DatePrefix(leg1_arrival)
        dd == DatePrefix(leg2_departure)
    IN  (* an aware and a naive datetime do not subtract: TypeError, caught *)
        IF a.ok /\ d.ok /\ a.aware = d.aware THEN Days(d.at - a.at)
        ELSE IF ad.ok /\ dd.ok THEN Days(dd.at - ad.at)
        ELSE 0

(***************************************************************************)
(* Offer records and the collected document.                               *)
(***************************************************************************)
Offer(o, d, so, sd, dep, arr, dur, p, v) ==
    [origin |-> o, destination |-> d, search_origin |-> so,
     search_destination |-> sd, departure_at |-> dep, arrival_at |-> arr,
     duration |-> dur, price |-> p, value |-> v]

(* Leg 1 offers out of MOW, as the collector stores them: an "any
   destination" query leaves search_destination null, a query for one city
   stores it, and the API may omit arrival_at, duration and price. *)
Leg1Offers ==
    << Offer("MOW", "IST", "MOW", NoCity, Stamp("iso", 15, 600), NoTime, 240, 100, Absent),
      Offer(NoCity, NoCity, "MOW", "IST", Stamp("space", 16, 480),
            Stamp("iso_offset", 16, 720), 240, 0, 50),
      Offer("MOW", "DXB", "MOW", NoCity, Stamp("iso", 15, 600), NoTime, Absent, 70, Absent),
      Offer("MOW", NoCity, "MOW", NoCity, Stamp("date", 16, 0), Stamp("date", 16, 0),
            Absent, Absent, Absent),
      Offer("MOW", "IST", "MOW", NoCity, Stamp("iso", 19, 600), Stamp("iso", 19, 900),
            300, Absent, 30),
      Offer("MOW", "DXB", "MOW", "DXB", Stamp("iso_minutes", 15, 600), NoTime, 60, 70, Absent),
      Offer("MOW", "IST", "MOW", NoCity, Stamp("iso", 16, 30), NoTime, 0, 40, Absent) >>

(* Leg 2 offers into BKK. *)
Leg2Offers ==
    << Offer("IST", "BKK", NoCity, "BKK", Stamp("iso_offset", 18, 540), NoTime, Absent, 200, Absent),
      Offer(NoCity, "BKK", "IST", "BKK", Stamp("iso", 19, 540), NoTime, 600, Absent, 80),
      Offer("DXB", "BKK", NoCity, "BKK", NoTime, NoTime, 400, 90, Absent),
      Offer(NoCity, NoCity, NoCity, "BKK", Stamp("date", 17, 0), NoTime, Absent, 60, Absent),
      Offer("DXB", "BKK", NoCity, "BKK", Stamp("garbage", 0, 0), Stamp("iso", 18, 0),
            Absent, 0, Absent),
      Offer("IST", "BKK", NoCity, "BKK", Stamp("iso", 17, 600), NoTime, 500, Null, Null) >>

(* The offer lists of a document: up to MaxLegs offers of a leg's catalogue,
   repeats allowed.  The loops of find_combinations treat every offer alike
   wherever it stands in its list, so the lists are enumerated in catalogue
   order only. *)
MaxLegs == 2
SeqsUpTo(S, n) == UNION { [1..k -> S] : k \in 0..n }
Picks(n, m) == { s \in SeqsUpTo(1..n, m) : \A k \in 1..(Len(s) - 1) : s[k] <= s[k + 1] }
Lists(catalogue, m) ==
    { [k \in 1..Len(s) |-> catalogue[s[k]]] : s \in Picks(Len(catalogue), m) }

MinStays == {-1, 0, 1, 3}
MaxStays == {2, 7}
ViaCities == {NoCity, "IST"}
(* <<from, to>> as days of February 2026; 0 is an option not given *)
Leg1Windows == { <<0, 0>>, <<16, 16>> }
Leg2Windows == { <<0, 0>>, <<0, 18>> }

(***************************************************************************)
(* The departure-date filter (lines 127-169).  The code compares the text  *)
(* before the first 'T' with the bound as strings; DateText gives that     *)
(* text a sort key <<day, tail>>: tail 0 when it is exactly a date, 1 when *)
(* more text follows the date ("2026-02-16 08:00:00" sorts after           *)
(* "2026-02-16" and before "2026-02-17"), and text starting with a letter  *)
(* sorts after every date.                                                 *)
(***************************************************************************)
AfterAllDates == 99
DateText(ts) ==
    CASE ts.lay \in {"iso_offset", "iso", "iso_z", "iso_minutes", "date"} -> <<ts.day, 0>>
      [] ts.lay = "space" -> <<ts.day, 1>>
      [] OTHER -> <<AfterAllDates, 0>>

StrLess(a, b) == a[1] < b[1] \/ (a[1] = b[1] /\ a[2] < b[2])

InWindow(flight, from, to) ==
    /\ HasTime(flight.departure_at)
    /\ ~(from # 0 /\ StrLess(DateText(flight.departure_at), <<from, 0>>))
    /\ ~(to # 0 /\ StrLess(<<to, 0>>, DateText(flight.departure_at)))

RECURSIVE FilterFrom(_, _, _, _)
FilterFrom(flights, k, from, to) ==
    IF k > Len(flights) THEN << >>
    ELSE (IF InWindow(flights[k], from, to) THEN <<k>> ELSE << >>)
         \o FilterFrom(flights, k + 1, from, to)

(* The list a leg is iterated over, as indices into the document's list. *)
FilterByDate(flights, from, to) ==
    IF from # 0 \/ to # 0 THEN FilterFrom(flights, 1, from, to)
    ELSE [k \in 1..Len(flights) |-> k]

VARIABLES data, min_stay, max_stay, leg1_depart_from, leg1_depart_to,
          leg2_depart_from, leg2_depart_to, via_city,
          leg1_flights, leg2_flights, pc, i, j, arrival_at,
          combinations, pairs, last

(* A call of calculate_stay_duration on its own: its two arguments and its
   result. *)
VARIABLES leg1_arrival, leg2_departure, stay_duration
stayVars == <<leg1_arrival, leg2_departure, stay_duration>>
StayIdle == leg1_arrival = NoTime /\ leg2_departure = NoTime /\ stay_duration = 0

(* Statistics and ranking: the options of main, the result of
   get_statistics, the itineraries print_summary lists and the combinations
   save_results writes. *)
VARIABLES top_n, unique_cities, stats, shown, saved
rankVars == <<top_n, unique_cities, stats, shown, saved>>
NoStats == [total_combinations |-> 0, min_price |-> 0, max_price |-> 0, median_price |-> 0]
RankIdle ==
    /\ top_n = 0 /\ unique_cities = FALSE
    /\ stats = NoStats /\ shown = << >> /\ saved = << >>

(* build_airport_network: its arguments, its ordered dictionary of
   coordinates and its result. *)
VARIABLES airports, max_distance_km, airport_coords, network
netVars == <<airports, max_distance_km, airport_coords, network>>
NetIdle ==
    /\ airports = << >> /\ max_distance_km = 0
    /\ airport_coords = << >> /\ network = << >>

(* main run a second time on the same arguments: the call number and what
   the first run produced *)
VARIABLES calls, previous
callVars == <<calls, previous>>
NoResult == [pc |-> "none", combinations |-> << >>, stats |-> NoStats,
             shown |-> << >>, saved |-> << >>]
CallIdle == calls = 1 /\ previous = NoResult

others == <<stayVars, rankVars, netVars, callVars>>

args == <<data, min_stay, max_stay, leg1_depart_from, leg1_depart_to,
          leg2_depart_from, leg2_depart_to, via_city>>
vars == <<data, min_stay, max_stay, leg1_depart_from, leg1_depart_to,
          leg2_depart_from, leg2_depart_to, via_city,
          leg1_flights, leg2_flights, pc, i, j, arrival_at,
          combinations, pairs, last, others>>

Idle == [step |-> "none", f1 |-> 0, f2 |-> 0, stay |-> 0]

Init ==
    /\ data \in [leg1_flights : Lists(Leg1Offers, MaxLegs),
                 leg2_flights : Lists(Leg2Offers, MaxLegs)]
    /\ min_stay \in MinStays
    /\ max_stay \in MaxStays
    /\ via_city \in ViaCities
    /\ \E w \in Leg1Windows : leg1_depart_from = w[1] /\ leg1_depart_to = w[2]
    /\ \E w \in Leg2Windows : leg2_depart_from = w[1] /\ leg2_depart_to = w[2]
    /\ leg1_flights = << >>
    /\ leg2_flights = << >>
    /\ pc = "filter1"
    /\ i = 0
    /\ j = 0
    /\ arrival_at = NoTime
    /\ combinations = << >>
    /\ pairs = << >>
    /\ last = Idle
    /\ StayIdle /\ RankIdle /\ NetIdle /\ CallIdle

(* lines 124-147 *)
FilterLeg1 ==
    /\ pc = "filter1"
    /\ leg1_flights' = FilterByDate(data.leg1_flights, leg1_depart_from, leg1_depart_to)
    /\ pc' = "filter2"
    /\ UNCHANGED <<args, others, leg2_flights, i, j, arrival_at, combinations, pairs, last>>

(* lines 149-171 *)
FilterLeg2 ==
    /\ pc = "filter2"
    /\ leg2_flights' = FilterByDate(data.leg2_flights, leg2_depart_from, leg2_depart_to)
    /\ pc' = "outer"
    /\ i' = 1
    /\ combinations' = << >>
    /\ UNCHANGED <<args, others, leg1_flights, j, arrival_at, pairs, last>>

(***************************************************************************)
(* The outer loop, lines 193-209: one leg 1 offer per step.                *)
(***************************************************************************)
flight1 == data.leg1_flights[leg1_flights[i]]
flight2 == data.leg2_flights[leg2_flights[j]]

(* Mutant of IntermediateCity: no fallback to the searched destination. *)
IntermediateCityNoFallback(f1) == f1.destination

(* line 195 *)
IntermediateCity(f1) == OrCity(f1.destination, f1.search_destination)
(* line 213 *)
Leg2Origin(f2) == OrCity(f2.origin, f2.search_origin)

(* Mutant of ArrivalOf: an offer without arrival data is anchored at its
   departure, as lines 240-241 do for leg 2. *)
ArrivalOrDeparture(f) ==
    IF HasTime(f.arrival_at) THEN f.arrival_at
    ELSE IF HasTime(f.departure_at) /\ Truthy(f.duration)
         THEN calculate_arrival(f.departure_at, f.duration)
         ELSE f.departure_at

(* lines 202-209: the arrival of a leg, or NoTime when the offer is skipped *)
ArrivalOf(f) ==
    IF HasTime(f.arrival_at) THEN f.arrival_at
    ELSE IF HasTime(f.departure_at) /\ Truthy(f.duration)
         THEN calculate_arrival(f.departure_at, f.duration)
         ELSE NoTime

(* Mutant of ViaRejected: the test whether via_city was given is lost. *)
ViaRejectedUnguarded(city) == city # via_city

(* line 198 *)
ViaRejected(city) == via_city # NoCity /\ city # via_city

Outer(step) == [step |-> step, f1 |-> leg1_flights[i], f2 |-> 0, stay |-> 0]

(* lines 198-199 *)
SkipVia ==
    /\ pc = "outer" /\ i <= Len(leg1_flights)
    /\ ViaRejected(IntermediateCity(flight1))
    /\ i' = i + 1
    /\ last' = Outer("skip_via")
    /\ UNCHANGED <<args, others, leg1_flights, leg2_flights, pc, j, arrival_at, combinations, pairs>>

(* lines 207-209 *)
SkipNoArrival ==
    /\ pc = "outer" /\ i <= Len(leg1_flights)
    /\ ~ViaRejected(IntermediateCity(flight1))
    /\ ~HasTime(ArrivalOf(flight1))
    /\ i' = i + 1
    /\ last' = Outer("skip_no_arrival")
    /\ UNCHANGED <<args, others, leg1_flights, leg2_flights, pc, j, arrival_at, combinations, pairs>>

(* lines 202-206, 211 *)
EnterInner ==
    /\ pc = "outer" /\ i <= Len(leg1_flights)
    /\ ~ViaRejected(IntermediateCity(flight1))
    /\ HasTime(ArrivalOf(flight1))
    /\ arrival_at' = ArrivalOf(flight1)
    /\ j' = 1
    /\ pc' = "inner"
    /\ last' = Outer("anchor")
    /\ UNCHANGED <<args, others, leg1_flights, leg2_flights, i, combinations, pairs>>

(***************************************************************************)
(* The inner loop, lines 211-272: one leg 2 offer per step.                *)
(***************************************************************************)
(* lines 231-232: price or value (default 0); Null when the result is None *)
PriceOf(f) ==
    IF Truthy(f.price) THEN f.price
    ELSE IF f.value = Absent THEN 0 ELSE f.value

(* Mutant of TotalPrice: the sum of the raw price fields. *)
TotalPriceOfRawFields(f1, f2) ==
    (IF Present(f1.price) THEN f1.price ELSE 0) + (IF Present(f2.price) THEN f2.price ELSE 0)

(* line 233 *)
TotalPrice(f1, f2) == PriceOf(f1) + PriceOf(f2)

(* lines 236-241 *)
Leg2Arrival(f) ==
    IF HasTime(ArrivalOf(f)) THEN ArrivalOf(f) ELSE f.departure_at

(* lines 244-270 *)
Combination(f1, f2, arr, stay_days) ==
    [total_price |-> TotalPrice(f1, f2),
     stay_days |-> stay_days,
     intermediate_city |-> IntermediateCity(f1),
     leg1 |-> [origin |-> OrCity(f1.origin, f1.search_origin),
               destination |-> IntermediateCity(f1),
               departure_at |-> f1.departure_at,
               arrival_at |-> arr,
               price |-> PriceOf(f1),
               duration |-> f1.duration],
     leg2 |-> [origin |-> IntermediateCity(f1),
               destination |-> OrCity(f2.destination, f2.search_destination),
               departure_at |-> f2.departure_at,
               arrival_at |-> Leg2Arrival(f2),
               price |-> PriceOf(f2),
               duration |-> f2.duration]]

(* Mutants of StayRejected: an exclusive lower bound; no lower bound. *)
StayRejectedExclusive(stay_days) == stay_days <= min_stay \/ stay_days > max_stay
StayRejectedNoLowerBound(stay_days) == stay_days > max_stay

(* line 227 *)
StayRejected(stay_days) == stay_days < min_stay \/ stay_days > max_stay

StayDays == calculate_stay_duration(arrival_at, flight2.departure_at)

Inner(step, stay_days) ==
    [step |-> step, f1 |-> leg1_flights[i], f2 |-> leg2_flights[j], stay |-> stay_days]

AtPair == pc = "inner" /\ j <= Len(leg2_flights)
OriginMatches == Leg2Origin(flight2) = IntermediateCity(flight1)

(* lines 215-216 *)
SkipOrigin ==
    /\ AtPair
    /\ ~OriginMatches
    /\ j' = j + 1
    /\ last' = Inner("skip_origin", 0)
    /\ UNCHANGED <<args, others, leg1_flights, leg2_flights, pc, i, arrival_at, combinations, pairs>>

(* lines 219-220 *)
SkipNoDeparture ==
    /\ AtPair
    /\ OriginMatches
    /\ ~HasTime(flight2.departure_at)
    /\ j' = j + 1
    /\ last' = Inner("skip_no_departure", 0)
    /\ UNCHANGED <<args, others, leg1_flights, leg2_flights, pc, i, arrival_at, combinations, pairs>>

(* lines 224-228 *)
SkipStay ==
    /\ AtPair
    /\ OriginMatches
    /\ HasTime(flight2.departure_at)
    /\ StayRejected(StayDays)
    /\ j' = j + 1
    /\ last' = Inner("skip_stay", StayDays)
    /\ UNCHANGED <<args, others, leg1_flights, leg2_flights, pc, i, arrival_at, combinations, pairs>>

(* lines 231-233: None + number raises TypeError, which nothing catches *)
RaiseTypeError ==
    /\ AtPair
    /\ OriginMatches
    /\ HasTime(flight2.departure_at)
    /\ ~StayRejected(StayDays)
    /\ (PriceOf(flight1) = Null \/ PriceOf(flight2) = Null)
    /\ pc' = "raised"
    /\ last' = Inner("raise", StayDays)
    /\ UNCHANGED <<args, others, leg1_flights, leg2_flights, i, j, arrival_at, combinations, pairs>>

(* lines 231-272 *)
Emit ==
    /\ AtPair
    /\ OriginMatches
    /\ HasTime(flight2.departure_at)
    /\ ~StayRejected(StayDays)
    /\ PriceOf(flight1) # Null /\ PriceOf(flight2) # Null
    /\ combinations' = Append(combinations,
                              Combination(flight1, flight2, arrival_at, StayDays))
    /\ pairs' = Append(pairs, <<leg1_flights[i], leg2_flights[j]>>)
    /\ j' = j + 1
    /\ last' = Inner("emit", StayDays)
    /\ UNCHANGED <<args, others, leg1_flights, leg2_flights, pc, i, arrival_at>>

(* line 211 exhausted: back to line 193 *)
NextLeg1 ==
    /\ pc = "inner" /\ j > Len(leg2_flights)
    /\ i' = i + 1
    /\ pc' = "outer"
    /\ last' = Idle
    /\ UNCHANGED <<args, others, leg1_flights, leg2_flights, j, arrival_at, combinations, pairs>>

(* line 274 *)
Return ==
    /\ pc = "outer" /\ i > Len(leg1_flights)
    /\ pc' = "returned"
    /\ last' = Idle
    /\ UNCHANGED <<args, others, leg1_flights, leg2_flights, i, j, arrival_at, combinations, pairs>>

Next ==
    \/ FilterLeg1
    \/ FilterLeg2
    \/ SkipVia
    \/ SkipNoArrival
    \/ EnterInner
    \/ SkipOrigin
    \/ SkipNoDeparture
    \/ SkipStay
    \/ RaiseTypeError
    \/ Emit
    \/ NextLeg1
    \/ Return

Spec == Init /\ [][Next]_vars

(***************************************************************************)
(* Properties of find_combinations.                                        *)
(*                                                                         *)
(* pairs[k] = <<a, b>> records that combinations[k] was built from         *)
(* data.leg1_flights[a] and data.leg2_flights[b]; last describes the       *)
(* branch the latest loop step took and the stay it computed.              *)
(***************************************************************************)
Finished == pc \in {"returned", "raised"}
Emitted == 1..Len(combinations)
Source1(k) == data.leg1_flights[pairs[k][1]]
Source2(k) == data.leg2_flights[pairs[k][2]]
ReachedStayTest == last.step \in {"skip_stay", "emit", "raise"}
LastFlight1 == data.leg1_flights[last.f1]
LastFlight2 == data.leg2_flights[last.f2]

(* The conditions of a valid pairing, as the specification words them. *)
HasCalendarDate(ts) ==
    ts.lay \in {"iso_offset", "iso", "iso_z", "space", "date", "iso_minutes"}
PassesWindow(f, from, to) ==
    \/ from = 0 /\ to = 0
    \/ /\ HasCalendarDate(f.departure_at)
       /\ (from = 0 \/ from <= f.departure_at.day)
       /\ (to = 0 \/ f.departure_at.day <= to)
UsableArrival(f) ==
    HasTime(f.arrival_at) \/ (HasTime(f.departure_at) /\ Present(f.duration))
ArrivalText(f) ==
    IF HasTime(f.arrival_at) THEN f.arrival_at
    ELSE calculate_arrival(f.departure_at, f.duration)
CityOfLeg1(f) == IF f.destination # NoCity THEN f.destination ELSE f.search_destination
CityOfLeg2(f) == IF f.origin # NoCity THEN f.origin ELSE f.search_origin
ValidPair(f1, f2) ==
    /\ PassesWindow(f1, leg1_depart_from, leg1_depart_to)
    /\ PassesWindow(f2, leg2_depart_from, leg2_depart_to)
    /\ (via_city = NoCity \/ CityOfLeg1(f1) = via_city)
    /\ UsableArrival(f1)
    /\ HasTime(f2.departure_at)
    /\ CityOfLeg2(f2) = CityOfLeg1(f1)
    /\ LET stay == calculate_stay_duration(ArrivalText(f1), f2.departure_at)
       IN  min_stay <= stay /\ stay <= max_stay
ValidPairs ==
    { p \in (1..Len(data.leg1_flights)) \X (1..Len(data.leg2_flights)) :
        ValidPair(data.leg1_flights[p[1]], data.leg2_flights[p[2]]) }

(* C1: when find_combinations ends, it has returned exactly one itinerary
   for every valid pair of input offers, none for any other pair, and no
   pair twice. *)
C1_ExactlyTheValidPairs ==
    Finished =>
        /\ pc = "returned"
        /\ { pairs[k] : k \in Emitted } = ValidPairs
        /\ Len(pairs) = Cardinality(ValidPairs)

(* C2: in every itinerary leg1.destination, leg2.origin and
   intermediate_city are one value, which is the destination (else the
   search_destination) of its leg 1 offer and the origin (else the
   search_origin) of its leg 2 offer. *)
C2_SharedIntermediateCity ==
    \A k \in Emitted :
        /\ combinations[k].leg1.destination = combinations[k].intermediate_city
        /\ combinations[k].leg2.origin = combinations[k].intermediate_city
        /\ combinations[k].intermediate_city = CityOfLeg1(Source1(k))
        /\ combinations[k].intermediate_city = CityOfLeg2(Source2(k))

(* an itinerary through a city both offers name only in their search field *)
C2_Witness ==
    /\ pc = "returned"
    /\ \E k \in Emitted :
          /\ Source1(k).destination = NoCity
          /\ Source2(k).origin = NoCity
          /\ combinations[k].intermediate_city = "IST"

(* C3: every itinerary has min_stay <= stay_days <= max_stay, and the stay
   test is inclusive at both ends: a pair that reaches it with a stay of
   min_stay or max_stay passes it (and is emitted with that stay), a pair
   with a stay of min_stay - 1 or max_stay + 1 is dropped. *)
C3_StayWindowInclusive ==
    /\ \A k \in Emitted :
          min_stay <= combinations[k].stay_days /\ combinations[k].stay_days <= max_stay
    /\ (ReachedStayTest /\ min_stay <= max_stay /\ last.stay \in {min_stay, max_stay})
          => last.step # "skip_stay"
    /\ (ReachedStayTest /\ last.stay \in {min_stay - 1, max_stay + 1})
          => last.step = "skip_stay"
    /\ last.step = "emit" =>
          /\ combinations[Len(combinations)].stay_days = last.stay
          /\ pairs[Len(pairs)] = <<last.f1, last.f2>>

(* a pair staying max_stay + 1 days is dropped after a pair staying exactly
   max_stay days was emitted *)
C3_Witness ==
    /\ min_stay < max_stay
    /\ last.step = "skip_stay" /\ last.stay = max_stay + 1
    /\ \E k \in Emitted : combinations[k].stay_days = max_stay

(* C4, as claimed: every itinerary has stay_days >= 0, whatever min_stay. *)
C4_StayNeverNegative ==
    \A k \in Emitted : combinations[k].stay_days >= 0

(* C4, amended: stay_days is never below min_stay, hence never negative
   when min_stay >= 0; below zero it is bounded by min_stay alone. *)
C4_StayNotBelowMinOrZero ==
    \A k \in Emitted :
        combinations[k].stay_days >= (IF min_stay >= 0 THEN 0 ELSE min_stay)

(* with min_stay = 0 a pair whose leg 2 departs before leg 1 arrives is
   dropped while another pair has been emitted *)
C4_Witness ==
    /\ min_stay = 0
    /\ last.step = "skip_stay" /\ last.stay < 0
    /\ Len(combinations) > 0

(* C5: total_price is the sum of the prices recorded in the two legs. *)
C5_TotalIsSumOfLegPrices ==
    \A k \in Emitted :
        combinations[k].total_price
            = combinations[k].leg1.price + combinations[k].leg2.price

(* an itinerary whose two leg prices are both non-zero, one taken from the
   price field and one from the value field *)
C5_Witness ==
    /\ pc = "returned"
    /\ \E k \in Emitted :
          /\ combinations[k].leg1.price > 0 /\ combinations[k].leg2.price > 0
          /\ Present(Source1(k).price) /\ ~Present(Source2(k).price)

(* C6: the price of a leg is the offer's price field whenever that field
   is present, a price of 0 included; value only when price is absent; 0
   only when both are absent. *)
PrimaryPrice(f) ==
    IF Present(f.price) THEN f.price
    ELSE IF Present(f.value) THEN f.value ELSE 0
C6_PrimaryPriceWhenPresent ==
    \A k \in Emitted :
        /\ combinations[k].leg1.price = PrimaryPrice(Source1(k))
        /\ combinations[k].leg2.price = PrimaryPrice(Source2(k))

(* C7: stay_days is the whole-day floor of leg 2 departure minus leg 1
   arrival whenever both parse; for the offer leaving 2026-02-15 10:00 for
   240 minutes the derived arrival is 2026-02-15 14:00, and against the
   offer leaving 2026-02-18 09:00 the stay is 2: emitted for
   min_stay = 1, max_stay = 7, dropped for min_stay = 3. *)
ScenarioLeg1 ==
    /\ LastFlight1.departure_at = Stamp("iso", 15, 600)
    /\ LastFlight1.duration = 240
    /\ ~HasTime(LastFlight1.arrival_at)
ScenarioLeg2 ==
    /\ LastFlight2.departure_at.day = 18 /\ LastFlight2.departure_at.min = 540
    /\ LastFlight2.departure_at.lay \in {"iso_offset", "iso", "space"}
C7_StayIsFloorOfDays ==
    ReachedStayTest =>
        LET a == parse_datetime(arrival_at)
            d == parse_datetime(LastFlight2.departure_at)
        IN  /\ (a.ok /\ d.ok /\ a.aware = d.aware) =>
                  /\ last.stay * MinutesPerDay <= d.at - a.at
                  /\ d.at - a.at < (last.stay + 1) * MinutesPerDay
            /\ (ScenarioLeg1 /\ ScenarioLeg2) =>
                  /\ arrival_at = Stamp("iso", 15, 840)
                  /\ last.stay = 2
                  /\ (min_stay = 1 /\ max_stay = 7) => last.step = "emit"
                  /\ min_stay = 3 => last.step = "skip_stay"

(* the scenario pair emitted under min_stay = 1, max_stay = 7 *)
C7_Witness ==
    /\ last.step = "emit" /\ ScenarioLeg1 /\ ScenarioLeg2
    /\ min_stay = 1 /\ max_stay = 7
    /\ combinations[Len(combinations)].stay_days = 2

(* C8: a leg 1 offer with neither arrival_at nor duration is leg 1 of no
   itinerary, and skipping it leaves the loop at the next leg 1 offer with
   the itineraries found so far. *)
C8_NoArrivalNoItinerary ==
    /\ \A k \in Emitted :
          HasTime(Source1(k).arrival_at) \/ Present(Source1(k).duration)
    /\ last.step = "skip_no_arrival" =>
          /\ pc = "outer"
          /\ i >= 2 /\ leg1_flights[i - 1] = last.f1
          /\ \A k \in Emitted : pairs[k][1] # last.f1

(* a result with an itinerary of a later leg 1 offer, although an earlier
   leg 1 offer had neither field and a leg 2 offer left from its city *)
C8_Witness ==
    /\ pc = "returned"
    /\ \E a \in 1..Len(data.leg1_flights), b \in 1..Len(data.leg2_flights) :
          /\ ~HasTime(data.leg1_flights[a].arrival_at)
          /\ ~Present(data.leg1_flights[a].duration)
          /\ CityOfLeg2(data.leg2_flights[b]) = CityOfLeg1(data.leg1_flights[a])
          /\ HasTime(data.leg2_flights[b].departure_at)
          /\ \E k \in Emitted : pairs[k][1] > a

(* C9: find_combinations never raises to its caller. *)
C9_NeverRaises == pc # "raised"

(* C10: a call with min_stay > max_stay does not return normally. *)
C10_InvalidOrderingFails == pc = "returned" => min_stay <= max_stay

(***************************************************************************)
(* calculate_stay_duration called on any two timestamp texts.              *)
(***************************************************************************)
StampDays == {15, 18}
StampMinutes == {540, 840}
Stamps ==
    { Stamp(l, d, m) : l \in {"iso_offset", "iso", "iso_z", "space", "iso_minutes"},
                       d \in StampDays, m \in StampMinutes }
    \cup { Stamp("date", d, 0) : d \in StampDays }
    \cup { Stamp("garbage", 0, 0) }

MainIdle ==
    /\ data = [leg1_flights |-> << >>, leg2_flights |-> << >>]
    /\ min_stay = 1 /\ max_stay = 30
    /\ leg1_depart_from = 0 /\ leg1_depart_to = 0
    /\ leg2_depart_from = 0 /\ leg2_depart_to = 0
    /\ via_city = NoCity
    /\ leg1_flights = << >> /\ leg2_flights = << >>
    /\ i = 0 /\ j = 0 /\ arrival_at = NoTime
    /\ pairs = << >> /\ last = Idle
    /\ CallIdle
mainVars == <<args, leg1_flights, leg2_flights, i, j, arrival_at, pairs, last, callVars>>

InitStay ==
    /\ MainIdle /\ combinations = << >> /\ RankIdle /\ NetIdle
    /\ pc = "stay_call"
    /\ leg1_arrival \in Stamps
    /\ leg2_departure \in Stamps
    /\ stay_duration = 0

(* lines 85-100 *)
CalculateStay ==
    /\ pc = "stay_call"
    /\ stay_duration' = calculate_stay_duration(leg1_arrival, leg2_departure)
    /\ pc' = "stay_done"
    /\ UNCHANGED <<mainVars, combinations, leg1_arrival, leg2_departure, rankVars, netVars>>

NextStay == CalculateStay

SpecStay == InitStay /\ [][NextStay]_vars

(* C19: calculate_stay_duration returns, in this order: the whole-day floor
   of departure minus arrival when both texts parse as instants (negative
   when the departure is the earlier one); else the whole-day difference of
   the dates before the 'T' when both of those parse; else 0. *)
ParsesAsInstant(ts) == ts.lay \in {"iso_offset", "iso", "iso_z", "space", "date"}
ClockMinutes(ts) == ts.day * MinutesPerDay + (IF ts.lay = "date" THEN 0 ELSE ts.min)
DateBeforeT(ts) == ts.lay \in {"iso_offset", "iso", "iso_z", "iso_minutes", "date"}
C19_StayFallbackChain ==
    pc = "stay_done" =>
        IF ParsesAsInstant(leg1_arrival) /\ ParsesAsInstant(leg2_departure)
        THEN /\ stay_duration * MinutesPerDay
                  <= ClockMinutes(leg2_departure) - ClockMinutes(leg1_arrival)
             /\ ClockMinutes(leg2_departure) - ClockMinutes(leg1_arrival)
                  < (stay_duration + 1) * MinutesPerDay
        ELSE IF DateBeforeT(leg1_arrival) /\ DateBeforeT(leg2_departure)
        THEN stay_duration = leg2_departure.day - leg1_arrival.day
        ELSE stay_duration = 0

(* C11: a leg with a from and/or to bound keeps an offer exactly when the
   offer has a departure_at whose calendar date lies in [from, to], both
   ends inclusive and an absent bound open, in each supported layout ('T'
   separator, space separator, date only); an offer without departure_at
   is dropped; a leg without bounds keeps all its offers. *)
SupportedOrAbsent(ts) == ts.lay \in {"iso_offset", "iso", "space", "date", "absent"}
Kept(list) == { list[k] : k \in 1..Len(list) }
C11_WindowKeepsDatesInside ==
    /\ pc # "filter1" =>
          \A k \in 1..Len(data.leg1_flights) :
              SupportedOrAbsent(data.leg1_flights[k].departure_at) =>
                  (k \in Kept(leg1_flights)
                     <=> PassesWindow(data.leg1_flights[k], leg1_depart_from, leg1_depart_to))
    /\ pc \notin {"filter1", "filter2"} =>
          \A k \in 1..Len(data.leg2_flights) :
              SupportedOrAbsent(data.leg2_flights[k].departure_at) =>
                  (k \in Kept(leg2_flights)
                     <=> PassesWindow(data.leg2_flights[k], leg2_depart_from, leg2_depart_to))

(* C20: with via_city given every itinerary goes through via_city and the
   result holds every pair through via_city that passes the other tests of
   the loop; without via_city the result holds every pair that passes
   them, whatever its city. *)
PassesOtherTests(f1, f2) ==
    /\ HasTime(ArrivalOf(f1))
    /\ Leg2Origin(f2) = IntermediateCity(f1)
    /\ HasTime(f2.departure_at)
    /\ ~StayRejected(calculate_stay_duration(ArrivalOf(f1), f2.departure_at))
C20_ViaCityFilter ==
    /\ \A k \in Emitted :
          via_city # NoCity => combinations[k].intermediate_city = via_city
    /\ pc = "returned" =>
          { pairs[k] : k \in Emitted }
            = { p \in Kept(leg1_flights) \X Kept(leg2_flights) :
                  /\ PassesOtherTests(data.leg1_flights[p[1]], data.leg2_flights[p[2]])
                  /\ (via_city = NoCity
                        \/ CityOfLeg1(data.leg1_flights[p[1]]) = via_city) }
    /\ last.step = "skip_via" =>
          via_city # NoCity /\ CityOfLeg1(LastFlight1) # via_city

(* a result through IST alone, although a pair through another city passes
   every other test *)
C20_Witness ==
    /\ pc = "returned"
    /\ via_city = "IST"
    /\ Len(combinations) > 0
    /\ \E p \in Kept(leg1_flights) \X Kept(leg2_flights) :
          /\ PassesOtherTests(data.leg1_flights[p[1]], data.leg2_flights[p[2]])
          /\ CityOfLeg1(data.leg1_flights[p[1]]) # "IST"

(***************************************************************************)
(* Statistics, ranking and selection: get_statistics, print_summary and    *)
(* save_results as main calls them (lines 613-620) on a list of            *)
(* itineraries.  An itinerary is reduced to the three fields these         *)
(* functions read for ordering and selection.  avg_price and the per-city  *)
(* table of get_statistics are not modelled.                               *)
(***************************************************************************)
Itinerary(p, c, d) == [total_price |-> p, intermediate_city |-> c, stay_days |-> d]
Itineraries ==
    { Itinerary(100, "IST", 1), Itinerary(100, "IST", 2), Itinerary(100, "DXB", 1),
      Itinerary(200, "IST", 1), Itinerary(200, "DXB", 3), Itinerary(300, "DXB", 1),
      Itinerary(300, NoCity, 1), Itinerary(900, "IST", 1) }
MaxCombos == 4
ItineraryLists == UNION { [1..n -> Itineraries] : n \in 0..MaxCombos }
TopNs == {-1, 0, 2}

(* list.sort() on numbers, line 297 *)
RECURSIVE InsertNumber(_, _)
InsertNumber(n, sorted) ==
    IF sorted = << >> THEN <<n>>
    ELSE IF n < Head(sorted) THEN <<n>> \o sorted
    ELSE <<Head(sorted)>> \o InsertNumber(n, Tail(sorted))
RECURSIVE SortNumbers(_)
SortNumbers(list) ==
    IF list = << >> THEN << >>
    ELSE InsertNumber(list[Len(list)], SortNumbers(SubSeq(list, 1, Len(list) - 1)))

(* Mutant of MedianIndex: the lower middle element. *)
MedianIndexLower(n) == (n + 1) \div 2

(* line 320: prices[len(prices) // 2], as a 1-based position *)
MedianIndex(n) == n \div 2 + 1

MinOf(list) == CHOOSE x \in {list[k] : k \in 1..Len(list)} :
                   \A k \in 1..Len(list) : x <= list[k]
MaxOf(list) == CHOOSE x \in {list[k] : k \in 1..Len(list)} :
                   \A k \in 1..Len(list) : x >= list[k]

(* Mutant of get_statistics: the count is taken after the reduction to one
   itinerary per city. *)
get_statistics_reduced(list) ==
    IF list = << >> THEN NoStats
    ELSE LET prices == SortNumbers([k \in 1..Len(list) |-> list[k].total_price])
         IN  [total_combinations |->
                  Cardinality({list[k].intermediate_city : k \in 1..Len(list)}),
              min_price |-> MinOf(prices),
              max_price |-> MaxOf(prices),
              median_price |-> prices[MedianIndex(Len(prices))]]

(* lines 287-322 *)
get_statistics(list) ==
    IF list = << >> THEN NoStats
    ELSE LET prices == SortNumbers([k \in 1..Len(list) |-> list[k].total_price])
         IN  [total_combinations |-> Len(list),
              min_price |-> MinOf(prices),
              max_price |-> MaxOf(prices),
              median_price |-> prices[MedianIndex(Len(prices))]]

(* Mutant of InsertByPrice: an element goes before the ones of equal price. *)
RECURSIVE InsertBeforeEqual(_, _)
InsertBeforeEqual(c, sorted) ==
    IF sorted = << >> THEN <<c>>
    ELSE IF c.total_price <= Head(sorted).total_price THEN <<c>> \o sorted
    ELSE <<Head(sorted)>> \o InsertBeforeEqual(c, Tail(sorted))

(* sorted(combinations, key=total_price), lines 361 and 427: stable, an
   element goes after the ones of equal price that precede it in the input *)
RECURSIVE InsertByPrice(_, _)
InsertByPrice(c, sorted) ==
    IF sorted = << >> THEN <<c>>
    ELSE IF c.total_price < Head(sorted).total_price THEN <<c>> \o sorted
    ELSE <<Head(sorted)>> \o InsertByPrice(c, Tail(sorted))
RECURSIVE SortByPrice(_)
SortByPrice(list) ==
    IF list = << >> THEN << >>
    ELSE InsertByPrice(list[Len(list)], SortByPrice(SubSeq(list, 1, Len(list) - 1)))

(* lines 365-372 and 431-438 *)
RECURSIVE FilterUnique(_, _)
FilterUnique(list, seen_cities) ==
    IF list = << >> THEN << >>
    ELSE IF Head(list).intermediate_city \in seen_cities
         THEN FilterUnique(Tail(list), seen_cities)
         ELSE <<Head(list)>>
              \o FilterUnique(Tail(list), seen_cities \cup {Head(list).intermediate_city})

(* lines 361-372 and 427-438 *)
Ranked(list, unique) ==
    IF unique THEN FilterUnique(SortByPrice(list), {}) ELSE SortByPrice(list)

(* Mutant of PySlice: no truncation. *)
PySliceAll(list, n) == list

(* list[:n], line 381: a negative n counts from the end *)
PySlice(list, n) ==
    IF n >= 0 THEN SubSeq(list, 1, IF n < Len(list) THEN n ELSE Len(list))
    ELSE SubSeq(list, 1, IF Len(list) + n > 0 THEN Len(list) + n ELSE 0)

InitRank ==
    /\ MainIdle /\ StayIdle /\ NetIdle
    /\ pc = "rank_stats"
    /\ combinations \in ItineraryLists
    /\ top_n \in TopNs
    /\ unique_cities \in BOOLEAN
    /\ stats = NoStats /\ shown = << >> /\ saved = << >>

rankInputs == <<mainVars, combinations, top_n, unique_cities, stayVars, netVars>>

(* line 613 *)
GetStatistics ==
    /\ pc = "rank_stats"
    /\ stats' = get_statistics(combinations)
    /\ pc' = "rank_print"
    /\ UNCHANGED <<rankInputs, shown, saved>>

(* lines 340-342: nothing is listed for an empty input *)
PrintEmpty ==
    /\ pc = "rank_print"
    /\ combinations = << >>
    /\ pc' = "rank_save"
    /\ UNCHANGED <<rankInputs, stats, shown, saved>>

(* Mutant of PrintRank: the list is sorted in place, as list.sort does. *)
PrintRankInPlace ==
    /\ pc = "rank_print"
    /\ combinations # << >>
    /\ combinations' = SortByPrice(combinations)
    /\ shown' = Ranked(combinations, unique_cities)
    /\ pc' = "print_top"
    /\ UNCHANGED <<mainVars, top_n, unique_cities, stayVars, netVars, stats, saved>>

(* lines 361-372 *)
PrintRank ==
    /\ pc = "rank_print"
    /\ combinations # << >>
    /\ shown' = Ranked(combinations, unique_cities)
    /\ pc' = "print_top"
    /\ UNCHANGED <<rankInputs, stats, saved>>

(* lines 375-412 *)
PrintTop ==
    /\ pc = "print_top"
    /\ shown' = PySlice(shown, top_n)
    /\ pc' = "rank_save"
    /\ UNCHANGED <<rankInputs, stats, saved>>

(* lines 619-620 with an output file: lines 426-444 *)
SaveResults ==
    /\ pc = "rank_save"
    /\ saved' = Ranked(combinations, unique_cities)
    /\ pc' = "rank_done"
    /\ UNCHANGED <<rankInputs, stats, shown>>

(* line 619 without an output file *)
NoOutput ==
    /\ pc = "rank_save"
    /\ pc' = "rank_skipped"
    /\ UNCHANGED <<rankInputs, stats, shown, saved>>

NextRank ==
    \/ GetStatistics
    \/ PrintEmpty
    \/ PrintRank
    \/ PrintTop
    \/ SaveResults
    \/ NoOutput

SpecRank == InitRank /\ [][NextRank]_vars

PricesOf(list) == {list[k].total_price : k \in 1..Len(list)}
CitiesOf(list) == {list[k].intermediate_city : k \in 1..Len(list)}
WithPrice(list, p) == SelectSeq(list, LAMBDA c : c.total_price = p)
CheapestOf(list, city) ==
    LET of_city == {k \in 1..Len(list) : list[k].intermediate_city = city}
        cheapest == {k \in of_city : \A m \in of_city :
                                          list[k].total_price <= list[m].total_price}
    IN  CHOOSE k \in cheapest : \A m \in cheapest : k <= m
RankedAsClaimed(ranked, input, unique) ==
    /\ \A k, l \in 1..Len(ranked) :
           k < l => ranked[k].total_price <= ranked[l].total_price
    /\ ~unique =>
           /\ Len(ranked) = Len(input)
           /\ \A p \in PricesOf(input) : WithPrice(ranked, p) = WithPrice(input, p)
    /\ unique =>
           /\ \A k, l \in 1..Len(ranked) :
                  k # l => ranked[k].intermediate_city # ranked[l].intermediate_city
           /\ CitiesOf(ranked) = CitiesOf(input)
           /\ \A k \in 1..Len(ranked) :
                  ranked[k] = input[CheapestOf(input, ranked[k].intermediate_city)]
           /\ \A k, l \in 1..Len(ranked) :
                  (k < l /\ ranked[k].total_price = ranked[l].total_price) =>
                      CheapestOf(input, ranked[k].intermediate_city)
                          < CheapestOf(input, ranked[l].intermediate_city)

(* C12: the ranked list of print_summary and of save_results is the stable
   ascending sort of the input by total_price; with unique_cities it holds
   exactly one itinerary per intermediate city of the input, the cheapest of
   that city and the earliest in input order among its cheapest. *)
C12_RankedStableAndUnique ==
    /\ pc = "print_top" => RankedAsClaimed(shown, combinations, unique_cities)
    /\ pc = "rank_done" => RankedAsClaimed(saved, combinations, unique_cities)

C12_Witness ==
    /\ pc = "rank_done"
    /\ unique_cities
    /\ combinations = <<Itinerary(200, "IST", 1), Itinerary(100, "IST", 2),
                        Itinerary(100, "DXB", 1), Itinerary(100, "IST", 1)>>
    /\ saved = <<Itinerary(100, "IST", 2), Itinerary(100, "DXB", 1)>>

Prefix(list, n) == SubSeq(list, 1, IF n < 0 THEN 0 ELSE n)
Smaller(a, b) == IF a < b THEN a ELSE b
AfterPrint == pc \in {"rank_save", "rank_done", "rank_skipped"}

(* C13: what is listed and what is saved are both the first min(top_n, k) of
   the k ranked (and, with unique_cities, reduced) itineraries, at most
   top_n of them, for every top_n. *)
C13_BothTruncatedToTopN ==
    LET ranked == Ranked(combinations, unique_cities)
        first == Prefix(ranked, Smaller(top_n, Len(ranked)))
    IN  /\ AfterPrint => shown = first /\ Len(shown) <= top_n
        /\ pc = "rank_done" => saved = first /\ Len(saved) <= top_n

(* C13 as the code has it: print_summary lists the first min(top_n, k) of
   the k ranked (and reduced) itineraries when top_n >= 0 and all but the
   last -top_n of them when top_n < 0; save_results takes no top_n and
   saves all k. *)
C13_ListedTruncatedSavedWhole ==
    LET ranked == Ranked(combinations, unique_cities)
        k == Len(ranked)
    IN  /\ AfterPrint =>
             shown = IF top_n >= 0 THEN Prefix(ranked, Smaller(top_n, k))
                                   ELSE Prefix(ranked, k + top_n)
        /\ pc = "rank_done" => saved = ranked

C13_Witness ==
    /\ pc = "rank_done"
    /\ unique_cities /\ top_n = 2
    /\ Len(combinations) = 4
    /\ Len(saved) = 3
    /\ shown = SubSeq(saved, 1, 2)

AfterStatistics == pc \in {"rank_print", "print_top"} \/ AfterPrint
CountBelow(list, m) == Cardinality({k \in 1..Len(list) : list[k].total_price < m})
CountUpTo(list, m) == Cardinality({k \in 1..Len(list) : list[k].total_price <= m})

(* C14: for n >= 1 itineraries median_price is the element at 0-based index
   floor(n/2) of the ascending total prices, min_price and max_price are
   the least and the greatest total price, total_combinations is n, and
   min_price <= median_price <= max_price. *)
C14_MedianIsUpperMiddle ==
    (AfterStatistics /\ combinations # << >>) =>
        LET n == Len(combinations)
        IN  /\ stats.total_combinations = n
            /\ stats.median_price \in PricesOf(combinations)
            /\ CountBelow(combinations, stats.median_price) <= n \div 2
            /\ CountUpTo(combinations, stats.median_price) > n \div 2
            /\ stats.min_price \in PricesOf(combinations)
            /\ \A p \in PricesOf(combinations) : stats.min_price <= p
            /\ stats.max_price \in PricesOf(combinations)
            /\ \A p \in PricesOf(combinations) : stats.max_price >= p
            /\ stats.min_price <= stats.median_price
            /\ stats.median_price <= stats.max_price

C14_Witness ==
    /\ AfterStatistics
    /\ Len(combinations) = 4
    /\ PricesOf(combinations) = {100, 200, 300, 900}
    /\ combinations[1].total_price = 900
    /\ stats.median_price = 300
    /\ stats.min_price = 100 /\ stats.max_price = 900

(***************************************************************************)
(* build_airport_network (src/build_airport_network.py).  An airport       *)
(* record is reduced to iata_code ("" when missing or empty) and the       *)
(* coordinates text; name, municipality and country are copied through by  *)
(* the code and are not modelled.  The points lie on the equator;          *)
(* distances are in millionths of a kilometre, rounded up, as the code's   *)
(* haversine_distance computes them for these points.  Codes are unique    *)
(* among the records that have one.                                        *)
(***************************************************************************)
Airport(code, text) == [iata_code |-> code, coordinates |-> text]
AirportRecords ==
    { Airport("AAA", "0, 0"), Airport("BBB", "0, 1"), Airport("CCC", "0, 0"),
      Airport("DDD", "0, 0.99999"), Airport("EEE", "0, 0.5"),
      Airport("", "0, 1"), Airport("FFF", "n/a"), Airport("GGG", "inf, 0") }
MaxAirports == 4
AirportLists ==
    { list \in UNION { [1..n -> AirportRecords] : n \in 0..MaxAirports } :
          \A k, l \in 1..Len(list) :
              (k # l /\ list[k].iata_code = list[l].iata_code) => list[k].iata_code = "" }
KmUnits == 1000000
Thresholds == {0, 100 * KmUnits, 11119 * (KmUnits \div 100), 150 * KmUnits}

(* lines 46-62: ok = FALSE is the (None, None) result *)
parse_coordinates(coord_str) ==
    CASE coord_str = "0, 0"       -> [ok |-> TRUE, lat |-> "0", lon |-> "0"]
      [] coord_str = "0, 1"       -> [ok |-> TRUE, lat |-> "0", lon |-> "1"]
      [] coord_str = "0, 0.99999" -> [ok |-> TRUE, lat |-> "0", lon |-> "0.99999"]
      [] coord_str = "0, 0.5"     -> [ok |-> TRUE, lat |-> "0", lon |-> "0.5"]
      [] coord_str = "inf, 0"     -> [ok |-> TRUE, lat |-> "inf", lon |-> "0"]
      [] OTHER                    -> [ok |-> FALSE, lat |-> "", lon |-> ""]

(* lines 14-43: math.sin of an infinite angle raises ValueError (ok = FALSE) *)
haversine_distance(lat1, lon1, lat2, lon2) ==
    IF "inf" \in {lat1, lat2} THEN [ok |-> FALSE, km |-> 0]
    ELSE [ok |-> TRUE,
          km |-> CASE lon1 = lon2 -> 0
                   [] {lon1, lon2} = {"0", "1"} -> 111194927
                   [] {lon1, lon2} = {"0", "0.99999"} -> 111193815
                   [] {lon1, lon2} = {"0", "0.5"} -> 55597464
                   [] {lon1, lon2} = {"1", "0.99999"} -> 1112
                   [] {lon1, lon2} = {"1", "0.5"} -> 55597464
                   [] {lon1, lon2} = {"0.99999", "0.5"} -> 55596352]

(* round(distance, 2), line 147: in hundredths of a kilometre *)
Round2(distance) == (distance + (KmUnits \div 200)) \div (KmUnits \div 100)

(* airport_coords[iata] = (lat, lon), line 121: a dict keeps the position of
   a key's first insertion *)
RECURSIVE Put(_, _)
Put(dict, entry) ==
    IF dict = << >> THEN <<entry>>
    ELSE IF Head(dict).iata = entry.iata THEN <<entry>> \o Tail(dict)
    ELSE <<Head(dict)>> \o Put(Tail(dict), entry)

(* lines 113-127 *)
RECURSIVE Collect(_)
Collect(list) ==
    IF list = << >> THEN << >>
    ELSE LET before == Collect(SubSeq(list, 1, Len(list) - 1))
             airport == list[Len(list)]
             parsed == parse_coordinates(airport.coordinates)
         IN  IF airport.iata_code = "" THEN before
             ELSE IF parsed.ok
                  THEN Put(before, [iata |-> airport.iata_code,
                                    lat |-> parsed.lat, lon |-> parsed.lon])
                  ELSE before

(* Mutants of WithinReach: an exclusive radius; the rounded distance. *)
WithinReachStrict(distance, max) == distance < max
WithinReachRounded(distance, max) == Round2(distance) * (KmUnits \div 100) <= max

(* line 144 *)
WithinReach(distance, max) == distance <= max

(* Mutant of InsertByDistance: an entry goes before the ones of equal distance. *)
RECURSIVE InsertBeforeEqualDistance(_, _)
InsertBeforeEqualDistance(n, sorted) ==
    IF sorted = << >> THEN <<n>>
    ELSE IF n.distance_km <= Head(sorted).distance_km THEN <<n>> \o sorted
    ELSE <<Head(sorted)>> \o InsertBeforeEqualDistance(n, Tail(sorted))

(* list.sort(key=distance_km), line 151: stable *)
RECURSIVE InsertByDistance(_, _)
InsertByDistance(n, sorted) ==
    IF sorted = << >> THEN <<n>>
    ELSE IF n.distance_km < Head(sorted).distance_km THEN <<n>> \o sorted
    ELSE <<Head(sorted)>> \o InsertByDistance(n, Tail(sorted))
RECURSIVE SortByDistance(_)
SortByDistance(list) ==
    IF list = << >> THEN << >>
    ELSE InsertByDistance(list[Len(list)], SortByDistance(SubSeq(list, 1, Len(list) - 1)))

DistanceBetween(a, b) == haversine_distance(a.lat, a.lon, b.lat, b.lon)

(* lines 136-148: the inner loop over the first upto entries of the dict *)
RECURSIVE Nearby(_, _, _, _)
Nearby(a, dict, upto, max) ==
    IF upto = 0 THEN << >>
    ELSE LET before == Nearby(a, dict, upto - 1, max)
             b == dict[upto]
         IN  IF a.iata = b.iata THEN before
             ELSE IF WithinReach(DistanceBetween(a, b).km, max)
                  THEN Append(before, [iata |-> b.iata,
                                       distance_km |-> Round2(DistanceBetween(a, b).km)])
                  ELSE before

(* lines 135-160 *)
Network(dict, max) ==
    [k \in 1..Len(dict) |->
        [iata |-> dict[k].iata,
         nearby_airports |-> SortByDistance(Nearby(dict[k], dict, Len(dict), max))]]

(* line 142 raises for some pair of distinct entries *)
DistanceRaises(dict) ==
    \E k, l \in 1..Len(dict) : k # l /\ ~DistanceBetween(dict[k], dict[l]).ok

InitNet ==
    /\ MainIdle /\ combinations = << >> /\ StayIdle /\ RankIdle
    /\ pc = "net_call"
    /\ airports \in AirportLists
    /\ max_distance_km \in Thresholds
    /\ airport_coords = << >> /\ network = << >>

netInputs == <<mainVars, combinations, stayVars, rankVars, airports, max_distance_km>>

(* lines 110-129 *)
CollectCoordinates ==
    /\ pc = "net_call"
    /\ airport_coords' = Collect(airports)
    /\ pc' = "net_coords"
    /\ UNCHANGED <<netInputs, network>>

(* lines 132-167 *)
BuildNetwork ==
    /\ pc = "net_coords"
    /\ ~DistanceRaises(airport_coords)
    /\ network' = Network(airport_coords, max_distance_km)
    /\ pc' = "net_done"
    /\ UNCHANGED <<netInputs, airport_coords>>

(* line 142: ValueError leaves build_airport_network *)
RaiseValueError ==
    /\ pc = "net_coords"
    /\ DistanceRaises(airport_coords)
    /\ pc' = "net_raised"
    /\ UNCHANGED <<netInputs, airport_coords, network>>

NextNet ==
    \/ CollectCoordinates
    \/ BuildNetwork
    \/ RaiseValueError

SpecNet == InitNet /\ [][NextNet]_vars

Built == pc = "net_done"
Codes == {r.iata_code : r \in AirportRecords}
Parseable(text) == text \in {"0, 0", "0, 1", "0, 0.99999", "0, 0.5", "inf, 0"}
ValidAirport(r) == r.iata_code # "" /\ Parseable(r.coordinates)
ValidCodes == {airports[k].iata_code : k \in {m \in 1..Len(airports) : ValidAirport(airports[m])}}
RecordOf(code) == airports[CHOOSE k \in 1..Len(airports) : airports[k].iata_code = code]
KmBetween(a, b) ==
    LET p == parse_coordinates(RecordOf(a).coordinates)
        q == parse_coordinates(RecordOf(b).coordinates)
    IN  haversine_distance(p.lat, p.lon, q.lat, q.lon).km
Keys(net) == {net[k].iata : k \in 1..Len(net)}
EdgesOf(net) ==
    UNION { {<<net[k].iata, net[k].nearby_airports[m].iata>> :
                 m \in 1..Len(net[k].nearby_airports)} : k \in 1..Len(net) }
EntryOf(net, code) == net[CHOOSE k \in 1..Len(net) : net[k].iata = code]
RecordedKm(net, a, b) ==
    LET list == EntryOf(net, a).nearby_airports
    IN  list[CHOOSE m \in 1..Len(list) : list[m].iata = b].distance_km

(* C15: in the returned network B is a neighbour of A exactly when A and B
   are distinct valid airports no farther apart than max_distance_km; the
   edges only grow with max_distance_km and are mutual.  Airports at (0,0)
   and (0,1) have no edge at 100 km and a mutual edge of 111.19 km, within
   0.5 km, at 150 km. *)
C15_EdgeIffWithinRadius ==
    Built =>
        /\ \A a, b \in Codes :
               <<a, b>> \in EdgesOf(network) <=>
                   /\ a # b
                   /\ a \in ValidCodes /\ b \in ValidCodes
                   /\ KmBetween(a, b) <= max_distance_km
        /\ \A e \in EdgesOf(network) : <<e[2], e[1]>> \in EdgesOf(network)
        /\ \A wider \in Thresholds :
               (wider >= max_distance_km /\ ~DistanceRaises(Collect(airports))) =>
                   EdgesOf(network) \subseteq EdgesOf(Network(Collect(airports), wider))
        /\ ({"AAA", "BBB"} \subseteq ValidCodes /\ max_distance_km = 100 * KmUnits) =>
               <<"AAA", "BBB">> \notin EdgesOf(network)
        /\ ({"AAA", "BBB"} \subseteq ValidCodes /\ max_distance_km = 150 * KmUnits) =>
               /\ {<<"AAA", "BBB">>, <<"BBB", "AAA">>} \subseteq EdgesOf(network)
               /\ RecordedKm(network, "AAA", "BBB") \in 11069..11169
               /\ RecordedKm(network, "BBB", "AAA") = RecordedKm(network, "AAA", "BBB")

C15_Witness ==
    /\ Built
    /\ max_distance_km = 150 * KmUnits
    /\ {<<"AAA", "BBB">>, <<"BBB", "AAA">>} \subseteq EdgesOf(network)
    /\ RecordedKm(network, "AAA", "BBB") = 11119
    /\ <<"AAA", "BBB">> \notin EdgesOf(Network(airport_coords, 100 * KmUnits))
    /\ "FFF" \in Codes \ Keys(network)
    /\ \E k \in 1..Len(airports) : airports[k].iata_code = "FFF"

(* C16: with max_distance_km = 0 every airport of the returned network has
   an empty neighbour list, airports sharing their coordinates included. *)
C16_ZeroRadiusNoNeighbours ==
    (Built /\ max_distance_km = 0) =>
        \A k \in 1..Len(network) : network[k].nearby_airports = << >>

(* C16 as the code has it: with max_distance_km = 0 the neighbours of an
   airport are exactly the other valid airports with its coordinates, each
   at distance 0; the list is empty when no other valid airport shares its
   coordinates. *)
C16_ZeroRadiusOnlyCoLocated ==
    (Built /\ max_distance_km = 0) =>
        \A k \in 1..Len(network) :
            LET entry == network[k]
                list == entry.nearby_airports
            IN  /\ {list[m].iata : m \in 1..Len(list)}
                       = {b \in ValidCodes \ {entry.iata} :
                              RecordOf(b).coordinates = RecordOf(entry.iata).coordinates}
                /\ \A m \in 1..Len(list) : list[m].distance_km = 0

C16_Witness ==
    /\ Built
    /\ max_distance_km = 0
    /\ Keys(network) = {"AAA", "BBB", "CCC", "DDD"}
    /\ EntryOf(network, "AAA").nearby_airports = <<[iata |-> "CCC", distance_km |-> 0]>>
    /\ EntryOf(network, "BBB").nearby_airports = << >>

FirstInInput(code) ==
    CHOOSE k \in 1..Len(airports) :
        /\ airports[k].iata_code = code
        /\ \A m \in 1..Len(airports) : airports[m].iata_code = code => k <= m

(* C17: every neighbour list of the returned network ascends by recorded
   distance_km, names no airport twice and never its own airport, and
   neighbours of equal recorded distance follow the order in which their
   airports first occur in the input. *)
C17_NeighboursSortedStable ==
    Built =>
        \A k \in 1..Len(network) :
            LET list == network[k].nearby_airports
            IN  /\ \A m, n \in 1..Len(list) :
                       m < n =>
                           /\ list[m].distance_km <= list[n].distance_km
                           /\ list[m].iata # list[n].iata
                           /\ list[m].distance_km = list[n].distance_km =>
                                  FirstInInput(list[m].iata) < FirstInInput(list[n].iata)
                /\ \A m \in 1..Len(list) : list[m].iata # network[k].iata

C17_Witness ==
    /\ Built
    /\ airports = <<Airport("BBB", "0, 1"), Airport("DDD", "0, 0.99999"),
                    Airport("EEE", "0, 0.5"), Airport("AAA", "0, 0")>>
    /\ EntryOf(network, "AAA").nearby_airports
           = <<[iata |-> "EEE", distance_km |-> 5560],
               [iata |-> "BBB", distance_km |-> 11119],
               [iata |-> "DDD", distance_km |-> 11119]>>

Usable(list) == SelectSeq(list, ValidAirport)

(* C18: the build returns, its keys are exactly the input airports with a
   non-empty iata_code and parseable coordinates (with an empty list when
   nothing is near), and airports without a code or with unparseable
   coordinates are neither keys nor neighbours and change nothing in the
   entries of the others. *)
C18_InvalidAirportsExcluded ==
    pc \in {"net_done", "net_raised"} =>
        /\ Built
        /\ Keys(network) = ValidCodes
        /\ \A e \in EdgesOf(network) : e[2] \in ValidCodes
        /\ network = Network(Collect(Usable(airports)), max_distance_km)

(* C22: every itinerary find_combinations returns has an intermediate_city;
   a leg1 offer with neither destination nor search_destination is never
   paired with a leg2 offer with neither origin nor search_origin. *)
C22_IntermediateCityDefined ==
    \A k \in Emitted :
        /\ combinations[k].intermediate_city # NoCity
        /\ ~(/\ Source1(k).destination = NoCity
             /\ Source1(k).search_destination = NoCity
             /\ Source2(k).origin = NoCity
             /\ Source2(k).search_origin = NoCity)

(***************************************************************************)
(* main, lines 608-620: find_combinations, then get_statistics,            *)
(* print_summary and save_results on its result; then the same again on    *)
(* the same arguments.                                                     *)
(***************************************************************************)
InitMain ==
    /\ data \in [leg1_flights : Lists(Leg1Offers, MaxLegs),
                 leg2_flights : Lists(Leg2Offers, MaxLegs)]
    /\ min_stay = 1
    /\ max_stay = 2
    /\ via_city \in ViaCities
    /\ \E w \in Leg1Windows : leg1_depart_from = w[1] /\ leg1_depart_to = w[2]
    /\ \E w \in Leg2Windows : leg2_depart_from = w[1] /\ leg2_depart_to = w[2]
    /\ leg1_flights = << >> /\ leg2_flights = << >>
    /\ pc = "filter1"
    /\ i = 0 /\ j = 0 /\ arrival_at = NoTime
    /\ combinations = << >> /\ pairs = << >> /\ last = Idle
    /\ top_n = 2
    /\ unique_cities \in BOOLEAN
    /\ stats = NoStats /\ shown = << >> /\ saved = << >>
    /\ StayIdle /\ NetIdle /\ CallIdle

(* line 609 returns to main, which goes on to line 613 *)
Found ==
    /\ pc = "returned"
    /\ pc' = "rank_stats"
    /\ UNCHANGED <<rankInputs, stats, shown, saved>>

(* a run of main is over: by a TypeError out of find_combinations, or after
   line 620; the next run starts with fresh locals and the same arguments *)
CallAgain ==
    /\ pc \in {"raised", "rank_done", "rank_skipped"}
    /\ calls = 1
    /\ calls' = 2
    /\ previous' = [pc |-> pc, combinations |-> combinations, stats |-> stats,
                    shown |-> shown, saved |-> saved]
    /\ leg1_flights' = << >> /\ leg2_flights' = << >>
    /\ pc' = "filter1"
    /\ i' = 0 /\ j' = 0 /\ arrival_at' = NoTime
    /\ combinations' = << >> /\ pairs' = << >> /\ last' = Idle
    /\ stats' = NoStats /\ shown' = << >> /\ saved' = << >>
    /\ UNCHANGED <<args, top_n, unique_cities, stayVars, netVars>>

NextMain ==
    \/ Next
    \/ Found
    \/ NextRank
    \/ CallAgain

SpecMain == InitMain /\ [][NextMain]_vars

RunOver == pc \in {"raised", "rank_done", "rank_skipped"}
Ranking == pc \in {"rank_stats", "rank_print", "print_top", "rank_save"}
RepeatEqual ==
    /\ (calls = 2 /\ pc = "returned") => combinations = previous.combinations
    /\ (calls = 2 /\ RunOver) =>
           /\ (pc = "raised") = (previous.pc = "raised")
           /\ combinations = previous.combinations
           /\ stats = previous.stats
           /\ shown = previous.shown
           /\ pc = previous.pc => saved = previous.saved
InputsUntouched ==
    /\ data' = data
    /\ Ranking => combinations' = combinations

(* C21: find_combinations leaves the offer lists and records of its input as
   they were, get_statistics, print_summary and save_results leave the
   combinations list as it was, and a second run on the same arguments
   gives the results of the first. *)
C21_InputsUntouchedResultsRepeat == [][InputsUntouched]_vars /\ []RepeatEqual

C21_Witness ==
    /\ calls = 2 /\ pc = "rank_done"
    /\ Len(combinations) >= 2
    /\ combinations[1].total_price > combinations[2].total_price
    /\ saved # combinations
    /\ saved = previous.saved
    /\ combinations = previous.combinations

(* C23: in the document save_results writes, statistics describe the whole
   list find_combinations returned, before any reduction to one itinerary
   per city: total_combinations is the number of itineraries found, at
   least the length of the saved list and equal to it when unique_cities is
   off; what print_summary lists is the beginning of the saved list, its
   first top_n itineraries. *)
C23_StatisticsOfFullList ==
    pc = "rank_done" =>
        /\ stats.total_combinations = Len(combinations)
        /\ stats.total_combinations >= Len(saved)
        /\ ~unique_cities => stats.total_combinations = Len(saved)
        /\ combinations # << >> =>
               /\ stats.min_price \in PricesOf(combinations)
               /\ stats.max_price \in PricesOf(combinations)
               /\ \A p \in PricesOf(combinations) :
                      stats.min_price <= p /\ p <= stats.max_price
        /\ Len(shown) <= Len(saved)
        /\ shown = SubSeq(saved, 1, Len(shown))
        /\ top_n >= 0 => Len(shown) = Smaller(top_n, Len(saved))

C23_Witness ==
    /\ pc = "rank_done"
    /\ unique_cities /\ top_n = 2
    /\ stats.total_combinations = 4
    /\ stats.max_price = 900
    /\ Len(saved) = 3
    /\ \A k \in 1..Len(saved) : saved[k].total_price < 900
    /\ Len(shown) = 2

=============================================================================
